---- MODULE Spec2Model ----
(***************************************************************************)
(* The post-measurement estimator of AmplitudeEstimation                   *)
(* (qiskit/aqua/algorithms/single_sample/amplitude_estimation/ae.py):      *)
(* _run (aggregation of the measured distribution), mle and ci.            *)
(*                                                                         *)
(* Numbers.  An amplitude or parameter value theta in [0,1] is a           *)
(* fixed-point integer with 8 sub-steps per 1e-7, so 1.0 is One.  The      *)
(* sub-steps place the float64 values of sin^2 that do not sit on a        *)
(* multiple of 1e-7, keeping their order, their equality and their         *)
(* rounding to 7 decimals.  A probability is the numerator of a fraction   *)
(* whose denominator is the total mass of the input (the number of shots   *)
(* on the counts path).  A log-likelihood is an integer level; chi-squared *)
(* and normal quantiles are in thousandths.                                *)
(***************************************************************************)
EXTENDS Integers, Sequences, FiniteSets, TLC

VARIABLES m, mapper, qi, ret, loglikTab, out, runs, par

vars == <<m, mapper, qi, ret, loglikTab, out, runs, par>>

(* ------------------------------ bounds -------------------------------- *)

\* Total probability mass (statevector path) or shots (counts path) of an
\* input of the aggregation specification.
MaxShots == 2

\* Number of points of the likelihood-ratio grid (10000 in the code).
GridNum == 3

\* Number of run calls on one estimator in the aggregation specification.
MaxRuns == 1

(* ----------------------------- arithmetic ----------------------------- *)

One == 8 * 10000000

Half == One \div 2

NoneVal == 0 - One

Pow2(k) == IF k = 0 THEN 1 ELSE IF k = 1 THEN 2 ELSE IF k = 2 THEN 4
           ELSE IF k = 3 THEN 8 ELSE 16

RECURSIVE SumSet(_, _)
SumSet(f, S) ==
    IF S = {} THEN 0
    ELSE LET x == CHOOSE x \in S : TRUE IN f[x] + SumSet(f, S \ {x})

SumFn(f) == SumSet(f, DOMAIN f)

\* S itself, enumerated once.
Enumerated(S) == {e : e \in S}

MinOf(S) == CHOOSE x \in S : \A y \in S : x <= y

MaxOf(S) == CHOOSE x \in S : \A y \in S : y <= x

RECURSIVE ISqrtFrom(_, _)
ISqrtFrom(n, r) == IF (r + 1) * (r + 1) > n THEN r ELSE ISqrtFrom(n, r + 1)

\* np.sqrt on a non-negative integer, rounded down.
ISqrt(n) == ISqrtFrom(n, 0)

\* np.round(x, decimals=7) of a fixed-point value.
Round7(x) == ((x + 4) \div 8) * 8

(* ------------------------- construction (77-110) ---------------------- *)

\* num_eval_qubits of the instances explored.
EvalQubits == {1, 2}

\* self._M = 2 ** num_eval_qubits
BigM(mm) == Pow2(mm)

\* self._num_qubits = a_factory.num_target_qubits + m + ancillas, for an
\* a_factory with one target qubit and a q_factory without ancillas.
NumQubits(mm) == mm + 1

\* a_factory.value_to_estimation: the identity, or the rescaling of [0,1]
\* to [0, 1.5] (low + value * (high - low) with low = 0, high = 1.5).
Mappers == {"identity", "rescale"}

ValueToEstimation(mp, a) ==
    IF a = NoneVal THEN NoneVal
    ELSE IF mp = "identity" THEN a ELSE (3 * a) \div 2

(* --------------------- sin^2 as float64 computes it ------------------- *)

\* np.power(np.sin(y * np.pi / 2 ** m), 2) for M = 2 ** m in {2, 4, 8}, as
\* float64 gives it: sin^2(pi/4) is 0.4999999999999999 and sin^2(3 pi/4) is
\* 0.5000000000000001; sin^2(pi/8) is 0.14644660940672624 and sin^2(7 pi/8)
\* is 0.14644660940672632; sin^2(3 pi/8) = sin^2(5 pi/8) is
\* 0.8535533905932737.
SinSq(M, y) ==
    IF M = 2 THEN (IF y = 1 THEN One ELSE 0)
    ELSE IF M = 4
        THEN CASE y = 1 -> Half - 1
               [] y = 2 -> One
               [] y = 3 -> Half + 1
               [] OTHER -> 0
    ELSE CASE y = 1 -> 8 * 1464466 + 1
           [] y = 2 -> Half - 1
           [] y = 3 -> 8 * 8535534 - 1
           [] y = 4 -> One
           [] y = 5 -> 8 * 8535534 - 1
           [] y = 6 -> Half + 1
           [] y = 7 -> 8 * 1464466 + 2
           [] OTHER -> 0

(* ------------- _evaluate_statevector_results (159-175) ---------------- *)

\* Bit k of i, least significant first: "{0:b}".format(i).rjust(n,'0')[::-1]
BitOf(i, k) == (i \div Pow2(k)) % 2

RECURSIVE IntOfBits(_)
\* int(b, 2) of a sequence of bits, most significant first.
IntOfBits(b) ==
    IF Len(b) = 0 THEN 0
    ELSE 2 * IntOfBits(SubSeq(b, 1, Len(b) - 1)) + b[Len(b)]

\* if y >= int(M / 2): y = M - y
Fold(y, mm) == IF y >= BigM(mm) \div 2 THEN BigM(mm) - y ELSE y

\* The index folded before it is accumulated into y_probabilities.
YOfIndexFolded(i, mm) ==
    Fold(IntOfBits([k \in 1..mm |-> BitOf(i, k - 1)]), mm)

\* y = int(b[:m], 2) for joint state index i.
YOfIndex(i, mm) == IntOfBits([k \in 1..mm |-> BitOf(i, k - 1)])

\* a = np.round(np.power(np.sin(y * np.pi / 2 ** m), 2), decimals=7)
AmplitudeSv(y, mm) == Round7(SinSq(BigM(mm), Fold(y, mm)))

\* y_probabilities of the statevector path: every index i is enumerated,
\* y_probabilities[y] = y_probabilities.get(y, 0) + probability.
YProbSv(probs, mm) ==
    LET ys == {YOfIndex(i, mm) : i \in DOMAIN probs}
    IN  [y \in ys |->
            SumSet(probs, {i \in DOMAIN probs : YOfIndex(i, mm) = y})]

\* a_probabilities of the statevector path, accumulated over y_probabilities.
AProbSv(yp, mm) ==
    LET as == {AmplitudeSv(y, mm) : y \in DOMAIN yp}
    IN  [a \in as |->
            SumSet(yp, {y \in DOMAIN yp : AmplitudeSv(y, mm) = a})]

(* ------------------ counts path of _run (206-215) --------------------- *)

CharBit(c) == IF c = "1" THEN 1 ELSE 0

Reverse(s) == [k \in 1..Len(s) |-> s[Len(s) + 1 - k]]

\* state.replace(' ', '')
StripSpaces(s) == SelectSeq(s, LAMBDA c : c # " ")

\* s[:n]
Prefix(s, n) == SubSeq(s, 1, IF n < Len(s) THEN n ELSE Len(s))

\* y = int(state.replace(' ', '')[:m][::-1], 2)
YOfState(state, mm) ==
    LET f == Reverse(Prefix(StripSpaces(state), mm))
    IN  IntOfBits([k \in 1..Len(f) |-> CharBit(f[k])])

\* shots = sum(ret.get_counts().values())
ShotsOf(counts) == SumFn([k \in 1..Len(counts) |-> counts[k][2]])

\* a = np.power(np.sin(y * np.pi / 2 ** m), 2): neither folded nor rounded.
AmplitudeCounts(y, mm) == SinSq(BigM(mm), y)

\* The last entry of the counts dictionary, in iteration order, whose state
\* reads y: y_probabilities[y] = p overwrites.
LastWithY(counts, y, mm) ==
    MaxOf({k \in 1..Len(counts) : YOfState(counts[k][1], mm) = y})

\* y_probabilities of the counts path: p = counts / shots, assigned.
YProbCounts(counts, mm) ==
    LET ys == {YOfState(counts[k][1], mm) : k \in 1..Len(counts)}
    IN  [y \in ys |-> counts[LastWithY(counts, y, mm)][2]]

\* a_probabilities of the counts path: a_probabilities.get(a, 0.0) + p.
AProbCounts(counts, mm) ==
    LET cnt == [k \in 1..Len(counts) |-> counts[k][2]]
        amp(k) == AmplitudeCounts(YOfState(counts[k][1], mm), mm)
        as == {amp(k) : k \in 1..Len(counts)}
    IN  [a \in as |-> SumSet(cnt, {k \in 1..Len(counts) : amp(k) = a})]

(* --------------------- the rest of _run (217-245) --------------------- *)

RECURSIVE SortedItems(_)
\* sorted([(k, p) for (k, p) in d.items()]): keys are unique, so the order
\* is that of the keys.
SortedItems(d) ==
    IF DOMAIN d = {} THEN <<>>
    ELSE LET k == MinOf(DOMAIN d)
         IN  <<<<k, d[k]>>>> \o SortedItems([x \in DOMAIN d \ {k} |-> d[x]])

RECURSIVE MostLikely(_, _, _)
\* for val, prob in mapped_items: if prob > max_probability: ...
\* acc is <<estimation, max_probability>>.
MostLikely(items, k, acc) ==
    IF k > Len(items) THEN acc
    ELSE MostLikely(items, k + 1,
                    IF items[k][2] > acc[2] THEN <<items[k][1], items[k][2]>>
                    ELSE acc)

\* The keys _run writes, from the two aggregated dictionaries.
RunFields(ap, yp, mp) ==
    LET a_items == SortedItems(ap)
        y_items == SortedItems(yp)
        mapped_values ==
            [k \in 1..Len(a_items) |-> ValueToEstimation(mp, a_items[k][1])]
        probabilities == [k \in 1..Len(a_items) |-> a_items[k][2]]
        mapped_items ==
            [k \in 1..Len(a_items) |-> <<mapped_values[k], probabilities[k]>>]
        best == MostLikely(mapped_items, 1, <<NoneVal, 0>>)
    IN  [a_items |-> a_items,
         y_items |-> y_items,
         mapped_values |-> mapped_values,
         values |-> [k \in 1..Len(a_items) |-> a_items[k][1]],
         y_values |-> [k \in 1..Len(y_items) |-> y_items[k][1]],
         probabilities |-> probabilities,
         mapped_items |-> mapped_items,
         estimation |-> best[1],
         max_probability |-> best[2]]

\* d.update(e): the keys of e are written, the other keys of d are kept.
Update(d, e) ==
    [k \in DOMAIN d \cup DOMAIN e |-> IF k \in DOMAIN e THEN e[k] ELSE d[k]]

Has(d, k) == k \in DOMAIN d

\* self._ret = {}
EmptyRet == [k \in {} |-> 0]

(* ------------------------ measurement inputs -------------------------- *)

\* Dense probability arrays over the 2 ** num_qubits joint register states
\* with total mass `mass` (state_probabilities of line 189).
SvInputs(mm, mass) ==
    {f \in [0..(Pow2(NumQubits(mm)) - 1) -> 0..mass] : SumFn(f) = mass}

\* Measured bitstrings (keys of ret.get_counts()): the m bits of the added
\* classical register, alone or followed by a space and the bit of another
\* classical register of the circuit.
BitStrings(n) == [1..n -> {"0", "1"}]

KeyShapes(mm) ==
    { BitStrings(mm),
      {b \o <<" ">> \o c : b \in BitStrings(mm), c \in BitStrings(1)} }

\* Count dictionaries, in iteration order: distinct keys of one shape, each
\* with a positive count, `shots` in all.
CountsOver(keys, shots) ==
    UNION { {s \in [1..n -> keys \X (1..shots)] :
                /\ \A j, k \in 1..n : j # k => s[j][1] # s[k][1]
                /\ ShotsOf(s) = shots} : n \in 1..shots }

CountsInputs(mm, shots) == UNION {CountsOver(K, shots) : K \in KeyShapes(mm)}

\* The inputs of the aggregation specification, per num_eval_qubits.
AggInputs ==
    [sv |-> [mm \in EvalQubits |-> Enumerated(SvInputs(mm, MaxShots))],
     counts |-> [mm \in EvalQubits |-> Enumerated(CountsInputs(mm, MaxShots))]]

\* The inputs of the life-cycle specification: all the mass on one joint
\* state, or one shot of a circuit with no other classical register.
UnitInputs ==
    [sv |-> [mm \in EvalQubits |-> Enumerated(SvInputs(mm, 1))],
     counts |-> [mm \in EvalQubits |-> Enumerated(CountsOver(BitStrings(mm), 1))]]

(* ------------- the log-likelihood and its maximizer (utils) ----------- *)

\* a_grid = np.linspace(0, 1, num=GridNum)
GridPts ==
    Enumerated({(k * One) \div (GridNum - 1) : k \in 0..(GridNum - 1)})

\* drops = np.sin(np.pi * np.linspace(0, 0.5, num=int(M / 2),
\*                                     endpoint=False)) ** 2, then 1 appended.
Drops(mm) ==
    [k \in 1..(BigM(mm) \div 2 + 1) |->
        IF k = BigM(mm) \div 2 + 1 THEN One ELSE SinSq(BigM(mm), k - 1)]

\* zip(drops[:-1], drops[1:])
Intervals(mm) ==
    [k \in 1..(Len(Drops(mm)) - 1) |-> <<Drops(mm)[k], Drops(mm)[k + 1]>>]

\* The points at which the model evaluates the log-likelihood inside [0,1]:
\* the grid, the singularities and one interior point per interval.
ThetaPts(mm) ==
    GridPts
    \cup {Drops(mm)[k] : k \in 1..Len(Drops(mm))}
    \cup {Round7((Intervals(mm)[k][1] + Intervals(mm)[k][2]) \div 2) :
             k \in 1..Len(Intervals(mm))}

\* The log-likelihood is continuous: values that agree to 7 decimals share a
\* level.
Cell(theta) == IF theta \in GridPts THEN theta ELSE Round7(theta)

Cells(mm) == {Cell(p) : p \in ThetaPts(mm)}

\* Levels of the log-likelihood.
LogLikVals == {0, 1}

\* loglik raises instead of returning a non-finite value.
Raises == NoneVal

\* A log-likelihood closed over (values, probabilities, shots, m): a level
\* for every point of [0,1], and what it does outside [0,1], where its
\* callers are to keep it from going: a level, or an error.
LogLikTabs ==
    [mm \in EvalQubits |->
        [inside : [Cells(mm) -> LogLikVals],
         outside : LogLikVals \cup {Raises}]]

\* The log-likelihood of a specification that never evaluates it.
FlatTabs ==
    [mm \in 1..3 |->
        {[inside |-> [c \in Cells(mm) |-> 0], outside |-> 0]}]

\* loglik(theta, m, values, probabilities, shots)
Loglik(tab, theta) ==
    IF theta < 0 \/ theta > One THEN tab.outside ELSE tab.inside[Cell(theta)]


\* chi2_quantile(alpha), alpha in percent, in thousandths.
Alphas == {5, 32}

Chi2Quantile(alpha) == IF alpha = 5 THEN 3841 ELSE 989

\* normal_quantile(alpha), in thousandths.
NormalQuantile(alpha) == IF alpha = 5 THEN 1960 ELSE 994

\* fisher_information(mle, m): a positive function of m (and mle).
FisherInformation(theta, mm) == BigM(mm) * BigM(mm)

\* d_logprob(a_i, mle, m): the slope of the single-sample log-probability.
DLogprob(a, theta, mm) == IF Cell(a) = Cell(theta) THEN 0 ELSE BigM(mm)

(* ------------------------------- calls -------------------------------- *)

NoLocals == <<>>

Outcome(op, status, kind, alpha, lo, hi, seed, locals) ==
    [op |-> op, status |-> status, kind |-> kind, alpha |-> alpha,
     lo |-> lo, hi |-> hi, seed |-> seed, locals |-> locals]

Returned(op) == Outcome(op, "ok", "", 0, 0, 0, 0, NoLocals)

Raised(op, status, kind, alpha) ==
    Outcome(op, status, kind, alpha, 0, 0, 0, NoLocals)

IsError(status) == status # "ok"

(* ------------------------------ _run ---------------------------------- *)

\* The statevector branch of _run (182-194) and lines 217-245.
RunStatevector(r, probs, mm, mp) ==
    LET yp == YProbSv(probs, mm)
    IN  Update(Update(r, [statevector |-> probs]),
               RunFields(AProbSv(yp, mm), yp, mp))

\* The counts branch of _run (195-215) and lines 217-245.
RunCounts(r, counts, mm, mp) ==
    Update(Update(r, [counts |-> counts]),
           RunFields(AProbCounts(counts, mm), YProbCounts(counts, mm), mp))

\* run(quantum_instance): sets the quantum instance, then _run.  tabs holds
\* the log-likelihoods the aggregated data may induce.
Run(inputs, tabs) ==
    /\ runs' = runs + 1
    /\ \/ /\ qi' = "statevector"
          /\ \E probs \in inputs.sv[m] :
                ret' = RunStatevector(ret, probs, m, mapper)
       \/ /\ qi' = "qasm"
          /\ \E counts \in inputs.counts[m] :
                ret' = RunCounts(ret, counts, m, mapper)
    /\ loglikTab' \in tabs[m]
    /\ out' = Returned("run")
    /\ UNCHANGED <<m, mapper, par>>

(* ------------------------------- mle ---------------------------------- *)

\* shots = 1; if not is_statevector: shots = sum(self._ret['counts'].values())
Shots(q, r) == IF q = "statevector" THEN 1 ELSE ShotsOf(r.counts)

\* a_opt = self._ret['estimation'], once the lookups of MlePre have passed.
Seed(r) == IF Has(r, "estimation") THEN r.estimation ELSE NoneVal

\* mle with no lookup failing before its loop: the seed defaults to None.
MlePreLax(q, r, tab) ==
    IF Loglik(tab, Seed(r)) = Raises THEN "NumericDegeneracy" ELSE "ok"

\* What stops mle before its loop, in the order of the code: the attribute of
\* a quantum instance that run has not set (250), the missing keys 'counts'
\* (251) and 'estimation' (269), the log-likelihood of the seed (270).
MlePre(q, r, tab) ==
    IF q = "None" THEN "AttributeError"
    ELSE IF q = "qasm" /\ ~Has(r, "counts") THEN "KeyError"
    ELSE IF ~Has(r, "estimation") THEN "KeyError"
    ELSE IF r.estimation = NoneVal THEN "TypeError"
    ELSE IF Loglik(tab, r.estimation) = Raises THEN "NumericDegeneracy"
    ELSE "ok"

\* The comparison of the loop with >= in place of >.
MleStepGe(best, res) == IF res[2] >= best[2] THEN res ELSE best

\* if loglik_local > loglik_opt: a_opt = local; loglik_opt = loglik_local
\* best and res are <<argument, log-likelihood>>.
MleStep(best, res) == IF res[2] > best[2] THEN res ELSE best

RECURSIVE MleLoop(_, _, _)
MleLoop(best, locals, k) ==
    IF k > Len(locals) THEN best
    ELSE MleLoop(MleStep(best, locals[k]), locals, k + 1)

\* The loop over zip(drops[:-2], drops[1:-1]): the last interval is left out.
MleFoldButLast(seed, locals) ==
    MleLoop(seed, SubSeq(locals, 1, Len(locals) - 1), 1)

\* for a, b in zip(drops[:-1], drops[1:]): ... over the results of bisect_max,
\* in ascending order of the intervals.
MleFold(seed, locals) == MleLoop(seed, locals, 1)

\* The points of the bracket of interval k.
Bracket(mm, k) ==
    {q \in ThetaPts(mm) : Intervals(mm)[k][1] <= q /\ q <= Intervals(mm)[k][2]}

Brackets ==
    [mm \in 1..3 |-> [k \in 1..Len(Intervals(mm)) |-> Enumerated(Bracket(mm, k))]]

\* The points bisect_max may return, one per interval.
ArgsOver(mm) ==
    {s \in [1..Len(Intervals(mm)) -> Enumerated(ThetaPts(mm))] :
        \A k \in 1..Len(Intervals(mm)) : s[k] \in Brackets[mm][k]}

ArgChoices == [mm \in 1..3 |-> Enumerated(ArgsOver(mm))]

\* local, loglik_local = bisect_max(loglik_wrapper, a, b, retval=True), for
\* every interval: the points args and the log-likelihood there.
LocalsAt(tab, args) == [k \in 1..Len(args) |-> <<args[k], Loglik(tab, args[k])>>]

\* self._ret['mle'] = value_to_estimation(a_opt); self._ret['mle_value'] = a_opt
MleRet(r, a_opt, mp) ==
    Update(r, [mle |-> ValueToEstimation(mp, a_opt), mle_value |-> a_opt])

Mle ==
    LET st == MlePre(qi, ret, loglikTab)
        seed == <<Seed(ret), Loglik(loglikTab, Seed(ret))>>
    IN  /\ \/ /\ IsError(st)
              /\ out' = Raised("mle", st, "", 0)
              /\ ret' = ret
           \/ /\ ~IsError(st)
              /\ \E args \in ArgChoices[m] :
                    LET locals == LocalsAt(loglikTab, args)
                    IN  /\ ret' = MleRet(ret, MleFold(seed, locals)[1], mapper)
                        /\ out' = Outcome("mle", "ok", "", 0, 0, 0, seed, locals)
        /\ UNCHANGED <<m, mapper, qi, loglikTab, runs, par>>

(* -------------------------------- ci ---------------------------------- *)

Kinds == {"fisher", "observed_fisher", "likelihood_ratio"}

\* What stops ci before it looks at `kind`: the quantum instance (309), the
\* key 'counts' (310), the key 'mle_value' (312).
CiPre(q, r) ==
    IF q = "None" THEN "AttributeError"
    ELSE IF q = "qasm" /\ ~Has(r, "counts") THEN "KeyError"
    ELSE IF ~Has(r, "mle_value") THEN "KeyError"
    ELSE "ok"

Interval(lo, hi) == [status |-> "ok", lo |-> lo, hi |-> hi]

Failure(status) == [status |-> status, lo |-> 0, hi |-> 0]

\* The float infinity a division by a zero standard deviation gives.
Inf == 16 * One

\* ci = mle + normal_quantile(alpha) / std * np.array([-1, 1])
NormalCi(mle, info, alpha) ==
    LET std == ISqrt(info)
        half == IF std = 0 THEN Inf
                ELSE ((One \div 1000) * NormalQuantile(alpha)) \div std
    IN  Interval(mle - half, mle + half)

\* std = np.sqrt(shots * fisher_information(mle, self._m))
CiFisher(mle, shots, alpha, mm) ==
    NormalCi(mle, shots * FisherInformation(mle, mm), alpha)

\* observed_information = np.sum(shots * pi * d_logprob(ai, mle, m) ** 2)
CiObservedFisher(mle, shots, alpha, r, mm) ==
    LET n == Len(r.values)
        den == SumFn(r.probabilities)
        terms == [k \in 1..n |->
                    r.probabilities[k] * DLogprob(r.values[k], mle, mm)
                                       * DLogprob(r.values[k], mle, mm)]
    IN  NormalCi(mle, (shots * SumFn(terms)) \div den, alpha)

\* The threshold with the sign of chi_q / 2 reversed.
AdmittedAbove(tab, mle, alpha) ==
    {g \in GridPts :
        2000 * Loglik(tab, g) >= 2000 * Loglik(tab, mle) + Chi2Quantile(alpha)}

\* idcs = (logliks >= (loglik_ref - chi_q / 2)), in halves of thousandths.
Admitted(tab, mle, alpha) ==
    {g \in GridPts :
        2000 * Loglik(tab, g) >= 2000 * Loglik(tab, mle) - Chi2Quantile(alpha)}

\* ci = np.append(np.min(a_grid[idcs]), np.max(a_grid[idcs])): np.min of an
\* empty array raises ValueError.
CiLikelihoodRatio(mle, tab, alpha) ==
    IF Loglik(tab, mle) = Raises THEN Failure("NumericDegeneracy")
    ELSE IF Admitted(tab, mle, alpha) = {} THEN Failure("ValueError")
    ELSE Interval(MinOf(Admitted(tab, mle, alpha)),
                  MaxOf(Admitted(tab, mle, alpha)))

\* ci(alpha, kind): what it returns or raises.
CiResult(q, r, tab, mm, alpha, kind) ==
    IF IsError(CiPre(q, r)) THEN Failure(CiPre(q, r))
    ELSE IF kind = "fisher"
        THEN CiFisher(r.mle_value, Shots(q, r), alpha, mm)
    ELSE IF kind = "observed_fisher"
        THEN CiObservedFisher(r.mle_value, Shots(q, r), alpha, r, mm)
    ELSE IF kind = "likelihood_ratio"
        THEN CiLikelihoodRatio(r.mle_value, tab, alpha)
    ELSE Failure("AquaError")

\* ci storing the interval under a key of self._ret.
CiRetStored(r, res) == Update(r, [ci |-> <<res.lo, res.hi>>])

\* ci assigns to no key of self._ret.
CiRet(r, res) == r

Ci(alpha, kind) ==
    LET res == CiResult(qi, ret, loglikTab, m, alpha, kind)
    IN  /\ out' = Outcome("ci", res.status, kind, alpha, res.lo, res.hi,
                          0, NoLocals)
        /\ ret' = CiRet(ret, res)
        /\ UNCHANGED <<m, mapper, qi, loglikTab, runs, par>>

(* ------------------- the estimator's life cycle ----------------------- *)

NoCall == Outcome("none", "ok", "", 0, 0, 0, 0, NoLocals)

NoPar == [seed |-> <<0, 0>>, locals |-> <<>>, done |-> {}, best |-> <<0, 0>>]

\* After __init__: _ret = {}, no quantum instance.
Init ==
    /\ m \in EvalQubits
    /\ mapper \in Mappers
    /\ qi = "None"
    /\ ret = EmptyRet
    /\ loglikTab \in FlatTabs[m]
    /\ out = NoCall
    /\ runs = 0
    /\ par = NoPar

\* One estimation: run is called once on the estimator, then mle and ci in
\* any order and number.
RunEstimator == runs = 0 /\ Run(UnitInputs, LogLikTabs)

CallCi == \E alpha \in Alphas, kind \in Kinds \cup {"bogus"} : Ci(alpha, kind)

Next == RunEstimator \/ Mle \/ CallCi

Spec == Init /\ [][Next]_vars

(* ---------------------- aggregation on its own ------------------------ *)

RunAggregate == runs < MaxRuns /\ Run(AggInputs, FlatTabs)

NextAgg == RunAggregate

SpecAgg == Init /\ [][NextAgg]_vars

(* ------------- the reduction of mle, in any order --------------------- *)

\* num_eval_qubits of the reductions explored: 2 and 4 intervals.
FoldQubits == {2, 3}

\* The seed <<a_opt, loglik_opt>> of a reduction: a singularity and a level.
SeedChoices(mm) ==
    {Drops(mm)[k] : k \in 1..Len(Drops(mm))} \X LogLikVals

\* The results <<local, loglik_local>> of the intervals: a point of each
\* bracket and any level.
ResultChoices(mm) ==
    {[k \in 1..Len(a) |-> <<a[k], v[k]>>] :
        a \in ArgChoices[mm], v \in [1..Len(Intervals(mm)) -> LogLikVals]}

FoldStarts ==
    [mm \in FoldQubits |->
        Enumerated({[seed |-> sd, locals |-> s, done |-> {}, best |-> sd] :
                       sd \in SeedChoices(mm), s \in ResultChoices(mm)})]

InitFold ==
    /\ m \in FoldQubits
    /\ mapper = "identity"
    /\ qi = "None"
    /\ ret = EmptyRet
    /\ loglikTab \in FlatTabs[m]
    /\ out = NoCall
    /\ runs = 0
    /\ par \in FoldStarts[m]

\* The body of the loop of mle (273-275) on the result of interval k, taken
\* in any order.
ParStep(k) ==
    /\ k \in 1..Len(par.locals)
    /\ k \notin par.done
    /\ par' = [par EXCEPT !.done = @ \cup {k},
                          !.best = MleStep(@, par.locals[k])]
    /\ UNCHANGED <<m, mapper, qi, ret, loglikTab, out, runs>>

NextFold == \E k \in 1..4 : ParStep(k)

SpecFold == InitFold /\ [][NextFold]_vars

(* ------------------------------ claims -------------------------------- *)

\* _run has aggregated the measured distribution.
Aggregated == Has(ret, "y_items") /\ Has(ret, "a_items")

ItemMass(items) == SumFn([k \in 1..Len(items) |-> items[k][2]])

\* The total mass of the raw input of the last run.
InputMass ==
    IF qi = "statevector" THEN SumFn(ret.statevector) ELSE ShotsOf(ret.counts)

\* C1: after _run, the probabilities of y_items sum to the total mass of the
\* raw input, and so do those of a_items, on both paths.
C1_MassConserved ==
    Aggregated =>
        /\ ItemMass(ret.y_items) = InputMass
        /\ ItemMass(ret.a_items) = InputMass

CiCalledAfterMle ==
    /\ out.op = "ci"
    /\ out.kind \in Kinds
    /\ Has(ret, "mle_value")
    /\ 0 <= ret.mle_value /\ ret.mle_value <= One

C4_UnsupportedKindIsAquaError ==
    (out.op = "ci" /\ out.kind \notin Kinds) => out.status = "AquaError"

\* C5: an mle or ci call made before run has aggregated the distribution
\* raises, and leaves _ret unchanged.
C5_CallBeforeRunRaises ==
    [][(~Aggregated /\ out'.op \in {"mle", "ci"})
          => (IsError(out'.status) /\ ret' = ret)]_vars

\* An mle call and a ci call were made before run, and raised.
C5_Witness ==
    /\ ret = EmptyRet
    /\ out.op = "ci"
    /\ out.kind = "likelihood_ratio"
    /\ IsError(out.status)

\* C6: the log-likelihood of the mle_value that mle returns is at least that
\* of the seed and that of the result of every interval, and mle_value is
\* not the seed only if an interval's result strictly exceeds the seed.
C6_MleIsBestCandidate ==
    (out.op = "mle" /\ out.status = "ok") =>
        LET v == Loglik(loglikTab, ret.mle_value)
        IN  /\ v >= out.seed[2]
            /\ \A k \in 1..Len(out.locals) : v >= out.locals[k][2]
            /\ \/ ret.mle_value = out.seed[1]
               \/ /\ v > out.seed[2]
                  /\ \E k \in 1..Len(out.locals) :
                        out.locals[k] = <<ret.mle_value, v>>

\* mle replaced the seed, and some interval's result is below the best.
C6_Witness ==
    /\ out.op = "mle"
    /\ out.status = "ok"
    /\ ret.mle_value # out.seed[1]
    /\ \E k \in 1..Len(out.locals) :
          out.locals[k][2] < Loglik(loglikTab, ret.mle_value)

\* The most probable amplitude of the aggregated distribution: the first key
\* of a_items with the largest probability.
MostProbableAmplitude == MostLikely(ret.a_items, 1, <<NoneVal, 0>>)[1]

\* C7: for every value mapper, the mle_value that mle returns lies in [0,1]:
\* it is the most probable amplitude or the result of an interval.
C7_MleValueIsAnAmplitude ==
    (out.op = "mle" /\ out.status = "ok") =>
        /\ 0 <= ret.mle_value
        /\ ret.mle_value <= One
        /\ \/ ret.mle_value = MostProbableAmplitude
           \/ \E k \in 1..Len(out.locals) : ret.mle_value = out.locals[k][1]

\* Every interval has been reduced.
FoldDone == par.locals # <<>> /\ par.done = 1..Len(par.locals)

\* C8, as claimed: reducing the results of the intervals in any order yields
\* the mle_value of the loop in ascending order, ties included.
C8_AnyOrderSameValue ==
    FoldDone => par.best[1] = MleFold(par.seed, par.locals)[1]

\* Two intervals attain the largest log-likelihood, above the seed's, at
\* different points.
TiedMaxima ==
    \E j, k \in 1..Len(par.locals) :
        /\ par.locals[j][2] = par.locals[k][2]
        /\ par.locals[j][1] # par.locals[k][1]
        /\ par.locals[j][2] > par.seed[2]
        /\ \A i \in 1..Len(par.locals) : par.locals[i][2] <= par.locals[j][2]

\* C8, amended: reducing the results of the intervals in any order yields
\* the log-likelihood of the loop in ascending order, and its mle_value
\* unless two intervals attain the largest log-likelihood, above the seed's,
\* at different points.
C8_AnyOrderSameValueUnlessTied ==
    FoldDone =>
        /\ par.best[2] = MleFold(par.seed, par.locals)[2]
        /\ ~TiedMaxima => par.best[1] = MleFold(par.seed, par.locals)[1]

\* A reduction of four intervals that replaced the seed, one interval tying
\* with the seed.
C8_Witness ==
    /\ FoldDone
    /\ Len(par.locals) = 4
    /\ ~TiedMaxima
    /\ par.best # par.seed
    /\ \E k \in 1..Len(par.locals) : par.locals[k][2] = par.seed[2]

\* C9: for the likelihood_ratio kind the interval does not shrink as alpha
\* decreases: for alpha1 < alpha2 the grid points admitted for alpha2 are
\* admitted for alpha1, lo(alpha1) <= lo(alpha2) and hi(alpha1) >= hi(alpha2).
C9_WiderAtSmallerAlpha ==
    (out.op = "ci" /\ out.kind = "likelihood_ratio" /\ out.status = "ok") =>
        \A a2 \in Alphas :
            LET r2 == CiLikelihoodRatio(ret.mle_value, loglikTab, a2)
            IN  /\ out.alpha < a2 =>
                      /\ Admitted(loglikTab, ret.mle_value, a2)
                            \subseteq Admitted(loglikTab, ret.mle_value, out.alpha)
                      /\ r2.status = "ok" => (out.lo <= r2.lo /\ r2.hi <= out.hi)
                /\ a2 < out.alpha =>
                      /\ r2.status = "ok"
                      /\ r2.lo <= out.lo
                      /\ out.hi <= r2.hi

\* A likelihood-ratio interval strictly wider than that of a larger alpha.
C9_Witness ==
    /\ out.op = "ci"
    /\ out.kind = "likelihood_ratio"
    /\ out.status = "ok"
    /\ \E a2 \in Alphas :
          LET r2 == CiLikelihoodRatio(ret.mle_value, loglikTab, a2)
          IN  /\ out.alpha < a2
              /\ r2.status = "ok"
              /\ (out.lo < r2.lo \/ r2.hi < out.hi)

\* C10: a ci call, whether it returns or raises, leaves _ret unchanged, and
\* repeated with the same arguments it returns the same.
C10_CiLeavesRetUnchanged ==
    [][out'.op = "ci" =>
          /\ ret' = ret
          /\ (out.op = "ci" /\ out.alpha = out'.alpha /\ out.kind = out'.kind)
                => out' = out]_vars

\* ci returned an interval after mle, and mle_value is the one mle wrote.
C10_Witness ==
    /\ out.op = "ci"
    /\ out.kind = "observed_fisher"
    /\ out.status = "ok"
    /\ Has(ret, "mle_value")
    /\ ~Has(ret, "ci")

====
